---------------------------- MODULE Spec2Model ----------------------------
(***************************************************************************)
(* PDS-status: the monitor (monitor_pds.py) probes a PDS, builds one       *)
(* monitoring result per invocation and saves it as one JSON file in the   *)
(* results directory; the analyzer (analyze_results.py) loads every file   *)
(* of that directory in sorted order.                                      *)
(*                                                                         *)
(* Time is the wall clock in whole seconds (the resolution of the file     *)
(* name save_results builds); elapsed times are in milliseconds, the       *)
(* resolution round(response_time, 3) keeps.  An optional value of the     *)
(* program (None or a value) is the empty or the one-element sequence.     *)
(* The 'timestamp' each result dict carries of its own is left out (the     *)
(* monitoring result's 'timestamp' is kept): nothing in the program reads  *)
(* it.                                                                     *)
(*                                                                         *)
(* The analyzer's quotients (percentages, the mean response time) are kept *)
(* exact, as fractions in lowest terms, and rounded only where the code    *)
(* formats them.  Of the analyzer's functions the model keeps what they    *)
(* compute, print and raise from their own statements; drawing the figures *)
(* and writing the output files are taken to succeed.                      *)
(***************************************************************************)
EXTENDS Integers, Sequences, FiniteSets, TLC

VARIABLES
    env,               \* what the surroundings can do: the invocations and the transport's outcomes
    now,               \* datetime.utcnow(), in seconds
    pc,                \* per invocation: the statement of main() it is at
    status_result,     \* per invocation: run_monitoring's status_result
    requests_results,  \* per invocation: perform_atproto_requests' requests_results
    monitoring_result, \* per invocation: run_monitoring's monitoring_result
    filename,          \* per invocation: save_results' filename
    stdout,            \* per invocation: what main() has printed
    logged,            \* per invocation: the messages given to logger.info
    raised,            \* per invocation: the exception that left main(), and the function it left first
    transport_log,     \* per invocation: what session.get returned or raised, call by call
    dir_exists,        \* the results directory exists
    files,             \* the results directory: file name -> content
    dirty,             \* the directory was written to since the last save_results call returned
    appended,          \* the save_results calls that returned, in the order they returned
    overlapped,        \* the invocations whose save_results call ran while another's did
    loader,            \* the analyzer's load_results: position, files left, results, errors;
                       \* fresh: it began with the directory as the last save_results call
                       \* left it; stable: the directory was not written to since it began
    analysis           \* the analyzer past load_results: who called, the statement it is at,
                       \* its results list, what it printed, what each function produced,
                       \* and the exception that left it

monitorVars == <<pc, status_result, requests_results, monitoring_result, filename,
                 stdout, logged, raised, transport_log>>
storeVars == <<dir_exists, files, dirty, appended, overlapped>>
vars == <<env, now, monitorVars, storeVars, loader, analysis>>

-----------------------------------------------------------------------------
(* Bounds *)

\* the probes of the catalog one run goes through: its first NumProbes entries
\* where the probes are what is looked at, its first StoreProbes entries where
\* the results directory is
NumProbes == 3
StoreProbes == 1
\* the clock stops at MaxClock seconds
MaxClock == 1
\* a history the analyzer is given: at most MaxHistory runs, on the first MaxDay
\* days of a week and on its last day, at most MaxRunsPerDay runs a day
MaxHistory == 4
MaxDay == 3
MaxRunsPerDay == 2

-----------------------------------------------------------------------------
(* Values *)

None == <<>>
Some(x) == <<x>>

PDS_URL == "https://jglypt.net"
USER_HANDLE == "@j4ck.xyz"

\* the endpoints list of perform_atproto_requests, in its order
endpoints ==
    << [name |-> "get_profile",           url |-> "/xrpc/app.bsky.actor.getProfile"],
       [name |-> "get_author_feed",       url |-> "/xrpc/app.bsky.feed.getAuthorFeed"],
       [name |-> "get_timeline",          url |-> "/xrpc/app.bsky.feed.getTimeline"],
       [name |-> "get_post_thread",       url |-> "/xrpc/app.bsky.feed.getPostThread"],
       [name |-> "get_notifications",     url |-> "/xrpc/app.bsky.notification.listNotifications"],
       [name |-> "get_suggestions",       url |-> "/xrpc/app.bsky.actor.getSuggestions"],
       [name |-> "search_posts",          url |-> "/xrpc/app.bsky.feed.searchPosts"],
       [name |-> "get_follows",           url |-> "/xrpc/app.bsky.graph.getFollows"],
       [name |-> "get_followers",         url |-> "/xrpc/app.bsky.graph.getFollowers"],
       [name |-> "get_likes",             url |-> "/xrpc/app.bsky.feed.getLikes"],
       [name |-> "get_reposts",           url |-> "/xrpc/app.bsky.feed.getRepostedBy"],
       [name |-> "get_blocks",            url |-> "/xrpc/app.bsky.graph.getBlocks"],
       [name |-> "get_mutes",             url |-> "/xrpc/app.bsky.graph.getMutes"],
       [name |-> "get_list",              url |-> "/xrpc/app.bsky.graph.getList"],
       [name |-> "get_lists",             url |-> "/xrpc/app.bsky.graph.getLists"],
       [name |-> "get_bookmarks",         url |-> "/xrpc/app.bsky.feed.getBookmarks"],
       [name |-> "get_preferences",       url |-> "/xrpc/app.bsky.actor.getPreferences"],
       [name |-> "get_suggested_follows", url |-> "/xrpc/app.bsky.actor.getSuggestions"],
       [name |-> "get_popular",           url |-> "/xrpc/app.bsky.feed.getPopular"],
       [name |-> "get_trending",          url |-> "/xrpc/app.bsky.feed.getTrending"] >>

\* the catalog one run goes through
Catalog == SubSeq(endpoints, 1, env.catalog)

Invocations == {"run1", "run2"}

-----------------------------------------------------------------------------
(* The transport: what session.get(url, timeout=10) can do *)

\* a response with a status code; body is the kind of its text
Response(code, body, elapsed) ==
    [kind |-> "response", status_code |-> code, body |-> body,
     elapsed |-> elapsed, exception |-> "", text |-> ""]

\* an exception of class cls whose str() is text
Raise(cls, text) ==
    [kind |-> "raise", status_code |-> 0, body |-> "",
     elapsed |-> 0, exception |-> cls, text |-> text]

\* an exception of class cls on its way out of main(), first out of function from
Exception(cls, from) == [exception |-> cls, from |-> from]
NoException == Exception("None", "None")

\* requests.exceptions: the classes with RequestException as a base
RequestExceptionClasses == {"RequestException", "ConnectionError", "Timeout"}

ConnectionError == Raise("ConnectionError", "Connection refused")
Timeout == Raise("Timeout", "Read timed out. (read timeout=10)")

\* describeServer: a JSON object, text that is no JSON, a JSON array, an error
\* status, or an exception
PrimaryOutcomes ==
    {Response(200, "object", e) : e \in {0, 250}}
        \cup {Response(200, "not json", 250), Response(200, "array", 250),
              Response(503, "object", 250), ConnectionError, Timeout}

\* a catalog request: the status codes the classification tells apart, and the exceptions
ProbeOutcomes ==
    {Response(c, "object", 120) : c \in {200, 401, 404, 500}} \cup {Timeout}

\* mutant: the clause names ConnectionError instead
IsConnectionErrorOnly(out) == out.exception = "ConnectionError"

\* the `except requests.exceptions.RequestException` clause takes the exception
IsRequestException(out) == out.exception \in RequestExceptionClasses

-----------------------------------------------------------------------------
(* check_pds_status *)

\* mutant: the code alone
HttpErrorBare(code) == ToString(code)

\* the f-string f"HTTP {response.status_code}"
HttpError(code) == "HTTP " \o ToString(code)

\* server_info.get(...) raises AttributeError when the JSON body is no object;
\* neither except clause of check_pds_status takes it
check_pds_status_raises(out) ==
    /\ out.kind = "response"
    /\ out.status_code = 200
    /\ out.body = "array"

\* the result dict check_pds_status returns for one outcome of the request
check_pds_status_result(out) ==
    LET result == [pds_url |-> PDS_URL, status |-> "unknown",
                   response_time |-> None, error |-> None, details |-> "{}"]
    IN  IF out.kind = "raise"
        THEN [result EXCEPT !.status = "offline", !.error = Some(out.text)]
        ELSE LET timed == [result EXCEPT !.response_time = Some(out.elapsed)]
             IN  IF out.status_code = 200
                 THEN [timed EXCEPT !.status = "online",
                                    !.details = IF out.body = "object"
                                                THEN "server_info"
                                                ELSE "raw_response"]
                 ELSE [timed EXCEPT !.status = "error",
                                    !.error = Some(HttpError(out.status_code))]

check_pds_status(m) ==
    /\ pc[m] = "check_pds_status"
    /\ \E out \in env.primary :
        /\ transport_log' = [transport_log EXCEPT ![m] = Append(@, out)]
        /\ IF (out.kind = "raise" /\ ~IsRequestException(out)) \/ check_pds_status_raises(out)
           THEN /\ pc' = [pc EXCEPT ![m] = "raised"]
                /\ raised' = [raised EXCEPT ![m] =
                                 Exception(IF out.kind = "raise" THEN out.exception
                                           ELSE "AttributeError", "check_pds_status")]
                /\ logged' = [logged EXCEPT ![m] = Append(@, "Starting PDS monitoring")]
                /\ UNCHANGED status_result
           ELSE /\ pc' = [pc EXCEPT ![m] = "perform_atproto_requests"]
                /\ status_result' = [status_result EXCEPT ![m] =
                                        Some(check_pds_status_result(out))]
                /\ logged' = [logged EXCEPT ![m] =
                                 @ \o <<"Starting PDS monitoring", "PDS Status">>]
                /\ UNCHANGED raised
    /\ UNCHANGED <<analysis, env, now, requests_results, monitoring_result, filename, stdout,
                   storeVars, loader>>

-----------------------------------------------------------------------------
(* perform_atproto_requests *)

\* mutant: the elapsed time is stored in the 200 branch only
probe_result_timed_on_200(endpoint, out) ==
    LET result == [endpoint |-> endpoint.name, url |-> endpoint.url,
                   status |-> "unknown", response_time |-> None, error |-> None,
                   response_code |-> None]
    IN  IF out.kind = "raise"
        THEN [result EXCEPT !.status = "failed", !.error = Some(out.text)]
        ELSE LET coded == [result EXCEPT !.response_code = Some(out.status_code)]
             IN  CASE out.status_code = 200 -> [coded EXCEPT !.status = "success",
                                                             !.response_time = Some(out.elapsed)]
                   [] out.status_code = 401 -> [coded EXCEPT !.status = "unauthorized"]
                   [] out.status_code = 404 -> [coded EXCEPT !.status = "not_found"]
                   [] OTHER -> [coded EXCEPT !.status = "error",
                                             !.error = Some(HttpError(out.status_code))]

\* mutant: the if/elif chain has no else branch
probe_result_no_else(endpoint, out) ==
    LET result == [endpoint |-> endpoint.name, url |-> endpoint.url,
                   status |-> "unknown", response_time |-> None, error |-> None,
                   response_code |-> None]
    IN  IF out.kind = "raise"
        THEN [result EXCEPT !.status = "failed", !.error = Some(out.text)]
        ELSE LET timed == [result EXCEPT !.response_time = Some(out.elapsed),
                                         !.response_code = Some(out.status_code)]
             IN  CASE out.status_code = 200 -> [timed EXCEPT !.status = "success"]
                   [] out.status_code = 401 -> [timed EXCEPT !.status = "unauthorized"]
                   [] out.status_code = 404 -> [timed EXCEPT !.status = "not_found"]
                   [] OTHER -> timed

\* the result dict one pass of the loop appends for one outcome of the request
probe_result(endpoint, out) ==
    LET result == [endpoint |-> endpoint.name, url |-> endpoint.url,
                   status |-> "unknown", response_time |-> None, error |-> None,
                   response_code |-> None]
    IN  IF out.kind = "raise"
        THEN [result EXCEPT !.status = "failed", !.error = Some(out.text)]
        ELSE LET timed == [result EXCEPT !.response_time = Some(out.elapsed),
                                         !.response_code = Some(out.status_code)]
             IN  CASE out.status_code = 200 -> [timed EXCEPT !.status = "success"]
                   [] out.status_code = 401 -> [timed EXCEPT !.status = "unauthorized"]
                   [] out.status_code = 404 -> [timed EXCEPT !.status = "not_found"]
                   [] OTHER -> [timed EXCEPT !.status = "error",
                                             !.error = Some(HttpError(out.status_code))]

\* one pass of `for endpoint in endpoints`
perform_atproto_requests(m) ==
    /\ pc[m] = "perform_atproto_requests"
    /\ Len(requests_results[m]) < Len(Catalog)
    /\ \E out \in env.probe :
        LET endpoint == Catalog[Len(requests_results[m]) + 1]
        IN  /\ transport_log' = [transport_log EXCEPT ![m] = Append(@, out)]
            /\ IF out.kind = "raise" /\ ~IsRequestException(out)
               THEN /\ pc' = [pc EXCEPT ![m] = "raised"]
                    /\ raised' = [raised EXCEPT ![m] =
                                     Exception(out.exception, "perform_atproto_requests")]
                    /\ UNCHANGED requests_results
               ELSE /\ requests_results' = [requests_results EXCEPT ![m] =
                                               Append(@, probe_result(endpoint, out))]
                    /\ UNCHANGED <<pc, raised>>
    /\ UNCHANGED <<analysis, env, now, status_result, monitoring_result, filename, stdout, logged,
                   storeVars, loader>>

-----------------------------------------------------------------------------
(* run_monitoring *)

\* sum(1 for r in requests_results if r['status'] == 'success')
successful_requests(results) ==
    Cardinality({i \in 1..Len(results) : results[i].status = "success"})

\* mutant: the quotient is cut, not rounded
success_rate_cut(successful, total) ==
    IF total > 0 THEN (10000 * successful) \div total ELSE 0

\* round(successful / total * 100, 2), in hundredths of a percent.  No quotient
\* s/n*100 with n < 32 lies halfway between two hundredths, so rounding half up
\* is what round() gives there.
success_rate(successful, total) ==
    IF total > 0 THEN (2 * 10000 * successful + total) \div (2 * total) ELSE 0

\* the 'summary' dict
summary(status, results) ==
    [total_requests      |-> Len(results),
     successful_requests |-> successful_requests(results),
     success_rate        |-> success_rate(successful_requests(results), Len(results)),
     pds_online          |-> status.status = "online"]

\* the statements after the loop returned: the count, and the monitoring_result dict
run_monitoring(m) ==
    /\ pc[m] = "perform_atproto_requests"
    /\ Len(requests_results[m]) = Len(Catalog)
    /\ monitoring_result' = [monitoring_result EXCEPT ![m] =
           Some([timestamp        |-> now,
                 pds_url          |-> PDS_URL,
                 user_handle      |-> USER_HANDLE,
                 pds_status       |-> status_result[m][1],
                 atproto_requests |-> requests_results[m],
                 summary          |-> summary(status_result[m][1], requests_results[m])])]
    /\ logged' = [logged EXCEPT ![m] = Append(@, "AT Protocol Requests")]
    /\ pc' = [pc EXCEPT ![m] = "save_results"]
    /\ UNCHANGED <<analysis, env, now, status_result, requests_results, filename, stdout, raised,
                   transport_log, storeVars, loader>>

-----------------------------------------------------------------------------
(* json.dump and json.load *)

\* JSON's null, number, string, true and false for the program's None, numbers,
\* strings, True and False
\* mutant: None is written as the number 0
json_number_zero(opt) == [t |-> "number", n |-> IF opt = None THEN 0 ELSE opt[1]]

json_number(opt) == IF opt = None THEN [t |-> "null"] ELSE [t |-> "number", n |-> opt[1]]
json_string(opt) == IF opt = None THEN [t |-> "null"] ELSE [t |-> "string", s |-> opt[1]]
json_bool(b) == IF b THEN "true" ELSE "false"

py_number(j) == IF j.t = "null" THEN None ELSE Some(j.n)
py_string(j) == IF j.t = "null" THEN None ELSE Some(j.s)
py_bool(j) == j = "true"

\* json.dump(results, f, indent=2): the text written for a monitoring_result
json_dump(r) ==
    [timestamp   |-> r.timestamp,
     pds_url     |-> r.pds_url,
     user_handle |-> r.user_handle,
     pds_status  |-> [pds_url       |-> r.pds_status.pds_url,
                      status        |-> r.pds_status.status,
                      response_time |-> json_number(r.pds_status.response_time),
                      error         |-> json_string(r.pds_status.error),
                      details       |-> r.pds_status.details],
     atproto_requests |->
         [i \in 1..Len(r.atproto_requests) |->
             LET q == r.atproto_requests[i]
             IN  [endpoint      |-> q.endpoint,
                  url           |-> q.url,
                  status        |-> q.status,
                  response_time |-> json_number(q.response_time),
                  error         |-> json_string(q.error),
                  response_code |-> json_number(q.response_code)]],
     summary |-> [total_requests      |-> r.summary.total_requests,
                  successful_requests |-> r.summary.successful_requests,
                  success_rate        |-> r.summary.success_rate,
                  pds_online          |-> json_bool(r.summary.pds_online)]]

\* json.load(f) of a complete text
json_load(d) ==
    [timestamp   |-> d.timestamp,
     pds_url     |-> d.pds_url,
     user_handle |-> d.user_handle,
     pds_status  |-> [pds_url       |-> d.pds_status.pds_url,
                      status        |-> d.pds_status.status,
                      response_time |-> py_number(d.pds_status.response_time),
                      error         |-> py_string(d.pds_status.error),
                      details       |-> d.pds_status.details],
     atproto_requests |->
         [i \in 1..Len(d.atproto_requests) |->
             LET q == d.atproto_requests[i]
             IN  [endpoint      |-> q.endpoint,
                  url           |-> q.url,
                  status        |-> q.status,
                  response_time |-> py_number(q.response_time),
                  error         |-> py_string(q.error),
                  response_code |-> py_number(q.response_code)]],
     summary |-> [total_requests      |-> d.summary.total_requests,
                  successful_requests |-> d.summary.successful_requests,
                  success_rate        |-> d.summary.success_rate,
                  pds_online          |-> py_bool(d.summary.pds_online)]]

\* a file's content: nothing yet (opened with 'w'), the first part of a text, a
\* whole text, or bytes of two texts written over each other
Empty == [state |-> "empty", text |-> None]
Partial == [state |-> "partial", text |-> None]
Garbled == [state |-> "garbled", text |-> None]
Complete(text) == [state |-> "complete", text |-> Some(text)]

\* json.load raises on anything but a whole text
json_load_raises(content) == content.state # "complete"

-----------------------------------------------------------------------------
(* save_results *)

\* datetime.utcnow().strftime("%Y%m%d_%H%M%S") in f"{output_dir}/pds_monitor_{timestamp}.json":
\* one name per second, and names sort as their seconds do
save_results_filename(t) == t

\* the other invocations that are inside save_results
InSaveResults(m) == {o \in Invocations \ {m} : pc[o] \in {"open", "json_dump"}}

\* os.makedirs(output_dir, exist_ok=True), then the file name.  makedirs raises
\* OSError only when it has to create the directory and cannot.
save_results_makedirs(m) ==
    /\ pc[m] = "save_results"
    /\ \/ /\ dir_exists' = TRUE
          /\ filename' = [filename EXCEPT ![m] = Some(save_results_filename(now))]
          /\ pc' = [pc EXCEPT ![m] = "open"]
          /\ overlapped' = IF InSaveResults(m) = {} THEN overlapped
                           ELSE overlapped \cup {m} \cup InSaveResults(m)
          /\ UNCHANGED raised
       \/ /\ ~dir_exists
          /\ pc' = [pc EXCEPT ![m] = "raised"]
          /\ raised' = [raised EXCEPT ![m] = Exception("OSError", "save_results")]
          /\ UNCHANGED <<dir_exists, filename, overlapped>>
    /\ UNCHANGED <<analysis, env, now, status_result, requests_results, monitoring_result, stdout,
                   logged, transport_log, files, dirty, appended, loader>>

\* mutant: an OSError from open is caught and the run goes on
save_results_open_swallows(m) ==
    /\ pc[m] = "open"
    /\ \/ /\ files' = [f \in DOMAIN files \cup {filename[m][1]} |->
                          IF f = filename[m][1] THEN Empty ELSE files[f]]
          /\ dirty' = TRUE
          /\ loader' = [loader EXCEPT !.stable = FALSE]
          /\ pc' = [pc EXCEPT ![m] = "json_dump"]
       \/ /\ pc' = [pc EXCEPT ![m] = "print"]
          /\ UNCHANGED <<files, dirty, loader>>
    /\ UNCHANGED <<analysis, env, now, status_result, requests_results, monitoring_result, filename,
                   stdout, logged, raised, transport_log, dir_exists, appended, overlapped>>

\* open(filename, 'w'): creates the file or truncates it, or raises OSError
save_results_open(m) ==
    /\ pc[m] = "open"
    /\ \/ /\ files' = [f \in DOMAIN files \cup {filename[m][1]} |->
                          IF f = filename[m][1] THEN Empty ELSE files[f]]
          /\ dirty' = TRUE
          /\ loader' = [loader EXCEPT !.stable = FALSE]
          /\ pc' = [pc EXCEPT ![m] = "json_dump"]
          /\ UNCHANGED raised
       \/ /\ pc' = [pc EXCEPT ![m] = "raised"]
          /\ raised' = [raised EXCEPT ![m] = Exception("OSError", "save_results")]
          /\ UNCHANGED <<files, dirty, loader>>
    /\ UNCHANGED <<analysis, env, now, status_result, requests_results, monitoring_result, filename,
                   stdout, logged, transport_log, dir_exists, appended, overlapped>>

\* mutant: the text is not written over what another writer put there
written_first_wins(content, text) ==
    IF content.state = "empty" THEN {Complete(text)} ELSE {content}

\* what the file holds once json.dump's text is written from offset 0: the text,
\* or, over bytes another writer put there since this one opened the file, the
\* text followed by what is left of the longer one
written(content, text) ==
    IF content.state = "empty" THEN {Complete(text)} ELSE {Complete(text), Garbled}

\* what the file holds when the write fails (OSError): what was there, or part of the text
write_failed(content) == {content, Partial}

\* json.dump(results, f, indent=2), the close of the `with` block, logger.info and
\* the return; or OSError from the write, which leaves the `with` and save_results
save_results_json_dump(m) ==
    /\ pc[m] = "json_dump"
    /\ LET name == filename[m][1]
           record == monitoring_result[m][1]
       IN  \/ /\ \E c \in written(files[name], json_dump(record)) :
                    files' = [files EXCEPT ![name] = c]
              /\ appended' = Append(appended, [by |-> m, filename |-> name, record |-> record])
              /\ dirty' = FALSE
              /\ logged' = [logged EXCEPT ![m] = Append(@, "Results saved")]
              /\ pc' = [pc EXCEPT ![m] = "print"]
              /\ UNCHANGED raised
           \/ /\ \E c \in write_failed(files[name]) :
                    files' = [files EXCEPT ![name] = c]
              /\ pc' = [pc EXCEPT ![m] = "raised"]
              /\ raised' = [raised EXCEPT ![m] = Exception("OSError", "save_results")]
              /\ dirty' = TRUE
              /\ UNCHANGED <<appended, logged>>
    /\ loader' = [loader EXCEPT !.stable = FALSE]
    /\ UNCHANGED <<analysis, env, now, status_result, requests_results, monitoring_result, filename,
                   stdout, transport_log, dir_exists, overlapped>>

-----------------------------------------------------------------------------
(* main *)

\* the print statements after save_results returned, and `return results`
main_print(m) ==
    /\ pc[m] = "print"
    /\ stdout' = [stdout EXCEPT ![m] = Append(@, "summary")]
    /\ pc' = [pc EXCEPT ![m] = "done"]
    /\ UNCHANGED <<analysis, env, now, status_result, requests_results, monitoring_result, filename,
                   logged, raised, transport_log, storeVars, loader>>

-----------------------------------------------------------------------------
(* load_results *)

RECURSIVE sorted(_)
\* sorted(files): the names in ascending order
sorted(names) ==
    IF names = {} THEN <<>>
    ELSE LET least == CHOOSE n \in names : \A k \in names : n <= k
         IN  <<least>> \o sorted(names \ {least})

RECURSIVE load_each(_, _)
\* the loop of load_results over names, on a directory that does not change
load_each(names, fs) ==
    IF names = <<>> THEN <<>>
    ELSE IF json_load_raises(fs[Head(names)])
         THEN load_each(Tail(names), fs)
         ELSE <<json_load(fs[Head(names)].text[1])>> \o load_each(Tail(names), fs)

\* load_results() on a directory that does not change while it runs
load_results(fs) == load_each(sorted(DOMAIN fs), fs)

\* glob.glob(pattern): the names in the directory now (none when there is no directory)
load_results_glob ==
    /\ loader.pc \in {"idle", "returned"}
    /\ loader' = [pc |-> "reading", todo |-> sorted(DOMAIN files), globbed |-> DOMAIN files,
                  fresh |-> ~dirty, stable |-> TRUE,
                  results |-> <<>>, errors |-> <<>>, raised |-> FALSE]
    /\ UNCHANGED <<analysis, env, now, monitorVars, storeVars>>

\* mutant: the except clause returns an empty list
load_results_file_gives_up ==
    /\ loader.pc = "reading"
    /\ loader.todo # <<>>
    /\ LET name == Head(loader.todo)
       IN  IF json_load_raises(files[name])
           THEN loader' = [loader EXCEPT !.pc = "returned", !.todo = <<>>, !.results = <<>>,
                                         !.errors = Append(@, name)]
           ELSE loader' = [loader EXCEPT !.todo = Tail(@),
                                         !.results = Append(@, json_load(files[name].text[1]))]
    /\ UNCHANGED <<analysis, env, now, monitorVars, storeVars>>

\* one pass of `for file_path in sorted(files)`: the try block, or its except clause
load_results_file ==
    /\ loader.pc = "reading"
    /\ loader.todo # <<>>
    /\ LET name == Head(loader.todo)
       IN  IF json_load_raises(files[name])
           THEN loader' = [loader EXCEPT !.todo = Tail(@), !.errors = Append(@, name)]
           ELSE loader' = [loader EXCEPT !.todo = Tail(@),
                                         !.results = Append(@, json_load(files[name].text[1]))]
    /\ UNCHANGED <<analysis, env, now, monitorVars, storeVars>>

\* return results
load_results_return ==
    /\ loader.pc = "reading"
    /\ loader.todo = <<>>
    /\ loader' = [loader EXCEPT !.pc = "returned"]
    /\ UNCHANGED <<analysis, env, now, monitorVars, storeVars>>

-----------------------------------------------------------------------------
(* analyze_results.py: numbers *)

\* a division by seven makes the weeks of the calendar: reshape(-1, 7)
DaysPerWeek == 7
\* timestamp.date(): the calendar date is the day the second lies in
SecondsPerDay == 86400

RECURSIVE gcd(_, _)
gcd(a, b) == IF b = 0 THEN a ELSE gcd(b, a % b)

\* the quotient n / d of two numbers, d > 0, kept exact
Fraction(n, d) == [num |-> n \div gcd(n, d), den |-> d \div gcd(n, d)]

\* (part / total) * 100 if total > 0 else 0
percentage(part, total) == IF total > 0 THEN Fraction(100 * part, total) ELSE Fraction(0, 1)

\* f"{x:.2f}": the nearest hundredth, in hundredths
format_2f(x) == (2 * 100 * x.num + x.den) \div (2 * x.den)

\* f"{x:.3f}" of seconds: the nearest millisecond, for x in milliseconds
format_3f(x) == (2 * x.num + x.den) \div (2 * x.den)

RECURSIVE sum(_)
\* sum(values)
sum(values) == IF values = <<>> THEN 0 ELSE Head(values) + sum(Tail(values))

\* datetime.fromisoformat(result['timestamp'].replace('Z', '+00:00')).date()
date(timestamp) == timestamp \div SecondsPerDay

\* what a call of one of the analyzer's functions does: the lines it prints, the
\* exception that leaves it ("None" when it returns), and what it computed and
\* saved (None when it saved nothing)
Outcome(printed, exc, output) == [printed |-> printed, raised |-> exc, output |-> output]

\* `if not results: print("No results to analyze"); return`
NoResults == Outcome(<<"No results to analyze">>, "None", None)

-----------------------------------------------------------------------------
(* create_uptime_graph, create_success_rate_graph *)

\* the series create_uptime_graph plots: a result's response_time as it is, None included
create_uptime_graph_outcome(results) ==
    IF results = <<>> THEN NoResults
    ELSE Outcome(<<"Uptime graph saved">>, "None",
             Some([timestamps     |-> [i \in 1..Len(results) |-> results[i].timestamp],
                   statuses       |-> [i \in 1..Len(results) |->
                                          IF results[i].pds_status.status = "online"
                                          THEN 1 ELSE 0],
                   response_times |-> [i \in 1..Len(results) |->
                                          results[i].pds_status.response_time]]))

\* the series create_success_rate_graph plots, taken from each result's summary
create_success_rate_graph_outcome(results) ==
    IF results = <<>> THEN NoResults
    ELSE Outcome(<<"Success rate graph saved">>, "None",
             Some([timestamps     |-> [i \in 1..Len(results) |-> results[i].timestamp],
                   success_rates  |-> [i \in 1..Len(results) |->
                                          results[i].summary.success_rate],
                   total_requests |-> [i \in 1..Len(results) |->
                                          results[i].summary.total_requests]]))

-----------------------------------------------------------------------------
(* create_calendar_heatmap *)

\* the daily_data dict: per date with a result, the results and the online ones
daily_data(results) ==
    [d \in {date(results[i].timestamp) : i \in 1..Len(results)} |->
        [online |-> Cardinality({i \in 1..Len(results) :
                                    /\ date(results[i].timestamp) = d
                                    /\ results[i].pds_status.status = "online"}),
         total  |-> Cardinality({i \in 1..Len(results) : date(results[i].timestamp) = d})]]

\* min(dates) and max(dates)
start_date(daily) == CHOOSE d \in DOMAIN daily : \A e \in DOMAIN daily : d <= e
end_date(daily) == CHOOSE d \in DOMAIN daily : \A e \in DOMAIN daily : e <= d

\* the 'uptime' column after df.reindex(date_range, fill_value=np.nan): one value
\* for each date of pd.date_range(start_date, end_date, freq='D'), the date's
\* uptime percentage, or NaN (None here) for a date daily_data has no entry for
reindex(daily) ==
    [k \in 1..(end_date(daily) - start_date(daily) + 1) |->
        LET d == start_date(daily) + k - 1
        IN  IF d \in DOMAIN daily
            THEN Some(percentage(daily[d].online, daily[d].total))
            ELSE None]

\* values.reshape(-1, 7) raises ValueError unless the values fill whole rows of 7
reshape_raises(values) == Len(values) % DaysPerWeek # 0

\* values.reshape(-1, 7): the rows of 7
reshape(values) ==
    [w \in 1..(Len(values) \div DaysPerWeek) |->
        SubSeq(values, DaysPerWeek * (w - 1) + 1, DaysPerWeek * w)]

\* the guard, the series, and the reshape that raises or gives the heatmap's matrix
create_calendar_heatmap_outcome(results) ==
    IF results = <<>> THEN NoResults
    ELSE LET values == reindex(daily_data(results))
         IN  IF reshape_raises(values)
             THEN Outcome(<<>>, "ValueError", None)
             ELSE Outcome(<<"Calendar heatmap saved">>, "None", Some(reshape(values)))

-----------------------------------------------------------------------------
(* create_endpoint_analysis *)

\* the success rate per endpoint name of the results' requests
endpoint_stats(results) ==
    LET requests == {<<i, j>> \in (1..Len(results)) \X (1..Len(endpoints)) :
                        j <= Len(results[i].atproto_requests)}
        of(e) == {q \in requests : results[q[1]].atproto_requests[q[2]].endpoint = e}
    IN  [e \in {results[q[1]].atproto_requests[q[2]].endpoint : q \in requests} |->
            percentage(
                Cardinality({q \in of(e) :
                                results[q[1]].atproto_requests[q[2]].status = "success"}),
                Cardinality(of(e)))]

create_endpoint_analysis_outcome(results) ==
    IF results = <<>> THEN NoResults
    ELSE Outcome(<<"Endpoint analysis saved">>, "None", Some(endpoint_stats(results)))

-----------------------------------------------------------------------------
(* generate_summary_report *)

\* `if r['pds_status'].get('response_time')`: neither None nor zero
truthy(response_time) == response_time # None /\ response_time[1] # 0

\* the response_times list, in milliseconds
response_times(results) ==
    LET kept == SelectSeq(results, LAMBDA r : truthy(r.pds_status.response_time))
    IN  [i \in 1..Len(kept) |-> kept[i].pds_status.response_time[1]]

\* the numbers the report is written from, as the report shows them; the average
\* response time line is written only when response_times is not empty
report(results) ==
    LET total_checks == Len(results)
        online_checks == Cardinality({i \in 1..Len(results) :
                                         results[i].pds_status.status = "online"})
        times == response_times(results)
        total_requests ==
            sum([i \in 1..Len(results) |-> results[i].summary.total_requests])
        successful ==
            sum([i \in 1..Len(results) |-> results[i].summary.successful_requests])
    IN  [total_checks         |-> total_checks,
         online_checks        |-> online_checks,
         uptime_percentage    |-> format_2f(percentage(online_checks, total_checks)),
         avg_response_time    |-> IF times # <<>>
                                  THEN Some(format_3f(Fraction(sum(times), Len(times))))
                                  ELSE None,
         total_requests       |-> total_requests,
         successful_requests  |-> successful,
         overall_success_rate |-> format_2f(percentage(successful, total_requests))]

\* mutant: the function has no `if not results` guard: the overall statistics
\* are written, then results[0] raises IndexError
generate_summary_report_unguarded(results) ==
    IF results = <<>>
    THEN Outcome(<<>>, "IndexError",
             Some([total_checks |-> 0, online_checks |-> 0,
                   uptime_percentage |-> format_2f(percentage(0, 0))]))
    ELSE Outcome(<<"Summary report saved">>, "None",
             Some(report(results)))

\* the guard, or the report written and the line printed
generate_summary_report_outcome(results) ==
    IF results = <<>> THEN NoResults
    ELSE Outcome(<<"Summary report saved">>, "None", Some(report(results)))

-----------------------------------------------------------------------------
(* analyze_results.py: main and the calls of its functions *)

\* the functions main() calls with the results, in its order
MainCalls == <<"create_uptime_graph", "create_success_rate_graph",
               "create_calendar_heatmap", "create_endpoint_analysis",
               "generate_summary_report">>

AnalysisFunctions == {MainCalls[i] : i \in 1..Len(MainCalls)}

\* the analyzer is not running
NotAnalyzing ==
    [caller |-> "none", pc |-> "off", results |-> <<>>, stdout |-> <<>>,
     output |-> [f \in AnalysisFunctions |-> None], ended |-> {}, raised |-> NoException]

\* the statement of main() after the call of f
after(f) ==
    LET i == CHOOSE k \in 1..Len(MainCalls) : MainCalls[k] = f
    IN  IF i < Len(MainCalls) THEN MainCalls[i + 1] ELSE "done"

\* the call of f ends as outcome says: in main() an exception leaves main(),
\* and the last call is followed by the "Analysis complete!" line
Called(f, outcome) ==
    analysis' =
        [analysis EXCEPT
            !.stdout = @ \o outcome.printed \o
                       (IF /\ analysis.caller = "main"
                           /\ outcome.raised = "None"
                           /\ after(f) = "done"
                        THEN <<"Analysis complete!">> ELSE <<>>),
            !.output = [@ EXCEPT ![f] = outcome.output],
            !.ended = @ \cup {f},
            !.raised = IF outcome.raised = "None" THEN @ ELSE Exception(outcome.raised, f),
            !.pc = IF outcome.raised # "None" THEN "raised"
                   ELSE IF analysis.caller = "main" THEN after(f) ELSE "done"]

\* main() up to its first call: load_results() on a directory nothing writes to
\* meanwhile, and the return when there are no results
analyze_results_main ==
    /\ analysis.pc = "main"
    /\ LET results == load_results(files)
       IN  analysis' =
               IF results = <<>>
               THEN [analysis EXCEPT
                        !.pc = "done",
                        !.stdout = @ \o <<"Loading monitoring results...",
                                          "No monitoring results found">>]
               ELSE [analysis EXCEPT
                        !.pc = MainCalls[1],
                        !.results = results,
                        !.stdout = @ \o <<"Loading monitoring results...",
                                          "Loaded monitoring results">>]
    /\ UNCHANGED <<env, now, monitorVars, storeVars, loader>>

create_uptime_graph ==
    /\ analysis.pc = "create_uptime_graph"
    /\ Called("create_uptime_graph", create_uptime_graph_outcome(analysis.results))
    /\ UNCHANGED <<env, now, monitorVars, storeVars, loader>>

create_success_rate_graph ==
    /\ analysis.pc = "create_success_rate_graph"
    /\ Called("create_success_rate_graph", create_success_rate_graph_outcome(analysis.results))
    /\ UNCHANGED <<env, now, monitorVars, storeVars, loader>>

create_calendar_heatmap ==
    /\ analysis.pc = "create_calendar_heatmap"
    /\ Called("create_calendar_heatmap", create_calendar_heatmap_outcome(analysis.results))
    /\ UNCHANGED <<env, now, monitorVars, storeVars, loader>>

create_endpoint_analysis ==
    /\ analysis.pc = "create_endpoint_analysis"
    /\ Called("create_endpoint_analysis", create_endpoint_analysis_outcome(analysis.results))
    /\ UNCHANGED <<env, now, monitorVars, storeVars, loader>>

generate_summary_report ==
    /\ analysis.pc = "generate_summary_report"
    /\ Called("generate_summary_report", generate_summary_report_outcome(analysis.results))
    /\ UNCHANGED <<env, now, monitorVars, storeVars, loader>>

-----------------------------------------------------------------------------
(* The clock *)

Tick ==
    /\ now < MaxClock
    /\ now' = now + 1
    /\ UNCHANGED <<analysis, env, monitorVars, storeVars, loader>>

-----------------------------------------------------------------------------
(* Specifications *)

InitState(e) ==
    /\ env = e
    /\ now = 0
    /\ pc = [m \in Invocations |-> IF m \in e.invocations THEN "check_pds_status" ELSE "off"]
    /\ status_result = [m \in Invocations |-> None]
    /\ requests_results = [m \in Invocations |-> <<>>]
    /\ monitoring_result = [m \in Invocations |-> None]
    /\ filename = [m \in Invocations |-> None]
    /\ stdout = [m \in Invocations |-> <<>>]
    /\ logged = [m \in Invocations |-> <<>>]
    /\ raised = [m \in Invocations |-> NoException]
    /\ transport_log = [m \in Invocations |-> <<>>]
    /\ dir_exists = FALSE
    /\ files = <<>>
    /\ dirty = FALSE
    /\ appended = <<>>
    /\ overlapped = {}
    /\ loader = [pc |-> "idle", todo |-> <<>>, globbed |-> {}, fresh |-> TRUE, stable |-> TRUE,
                 results |-> <<>>, errors |-> <<>>, raised |-> FALSE]
    /\ analysis = NotAnalyzing

\* the PDS is up and well
Healthy == Response(200, "object", 250)

\* one invocation of the monitor: describeServer can end in every way and the
\* catalog requests succeed, or describeServer succeeds and each catalog request
\* can end in every way
Init ==
    \/ InitState([invocations |-> {"run1"}, catalog |-> NumProbes,
                  primary |-> PrimaryOutcomes, probe |-> {Response(200, "object", 120)}])
    \/ InitState([invocations |-> {"run1"}, catalog |-> NumProbes,
                  primary |-> {Healthy}, probe |-> ProbeOutcomes])

\* two invocations of the monitor, one after the other or at once, against a PDS
\* that is up or unreachable for describeServer
InitStore ==
    InitState([invocations |-> {"run1", "run2"}, catalog |-> StoreProbes,
               primary |-> {Healthy, ConnectionError},
               probe |-> {Response(200, "object", 120)}])

Next ==
    \/ \E m \in Invocations :
        \/ check_pds_status(m)
        \/ perform_atproto_requests(m)
        \/ run_monitoring(m)
        \/ save_results_makedirs(m)
        \/ save_results_open(m)
        \/ save_results_json_dump(m)
        \/ main_print(m)
    \/ load_results_glob
    \/ load_results_file
    \/ load_results_return
    \/ Tick

Spec == Init /\ [][Next]_vars

SpecStore == InitStore /\ [][Next]_vars

\* the monitoring_result of a run at second t whose describeServer request ended
\* as out, against a PDS that answers the catalog requests when it answered that
\* one and is as unreachable for them when it was not
RunRecord(t, out) ==
    LET status == check_pds_status_result(out)
        results == [i \in 1..StoreProbes |->
                       probe_result(endpoints[i],
                                    IF out.kind = "raise" THEN out
                                    ELSE Response(200, "object", 120))]
    IN  [timestamp        |-> t,
         pds_url          |-> PDS_URL,
         user_handle      |-> USER_HANDLE,
         pds_status       |-> status,
         atproto_requests |-> results,
         summary          |-> summary(status, results)]

\* the seconds the runs of a history can be at: the first seconds of its days
RunTimes ==
    {d * SecondsPerDay + s : d \in (0..(MaxDay - 1)) \cup {DaysPerWeek - 1},
                             s \in 0..(MaxRunsPerDay - 1)}

\* the runs of a history: a day's runs are at its first seconds, one after the other
RunSets ==
    {T \in SUBSET RunTimes :
        /\ Cardinality(T) <= MaxHistory
        /\ \A t \in T : t % SecondsPerDay = 0 \/ t - 1 \in T}

\* describeServer as the runs of a history met it: answered, answered within
\* the clock's resolution, not reachable
AnalyzedOutcomes == {Healthy, Response(200, "object", 0), ConnectionError}

\* the analyzer over a results directory the monitor's runs left and no run
\* writes to: main(), or one call of one of its functions with the results that
\* load_results returns
InitAnalyze ==
    \E T \in RunSets : \E out \in [T -> AnalyzedOutcomes] :
        LET fs == [t \in T |-> Complete(json_dump(RunRecord(t, out[t])))]
        IN  /\ env = [invocations |-> {}, catalog |-> StoreProbes,
                      primary |-> {}, probe |-> {}]
            /\ now = 0
            /\ pc = [m \in Invocations |-> "off"]
            /\ status_result = [m \in Invocations |-> None]
            /\ requests_results = [m \in Invocations |-> <<>>]
            /\ monitoring_result = [m \in Invocations |-> None]
            /\ filename = [m \in Invocations |-> None]
            /\ stdout = [m \in Invocations |-> <<>>]
            /\ logged = [m \in Invocations |-> <<>>]
            /\ raised = [m \in Invocations |-> NoException]
            /\ transport_log = [m \in Invocations |-> <<>>]
            /\ dir_exists = (T # {})
            /\ files = fs
            /\ dirty = FALSE
            /\ appended = <<>>
            /\ overlapped = {}
            /\ loader = [pc |-> "idle", todo |-> <<>>, globbed |-> {}, fresh |-> TRUE,
                         stable |-> TRUE, results |-> <<>>, errors |-> <<>>,
                         raised |-> FALSE]
            /\ \/ analysis = [NotAnalyzing EXCEPT !.caller = "main", !.pc = "main"]
               \/ \E f \in AnalysisFunctions :
                    analysis = [NotAnalyzing EXCEPT !.caller = "call", !.pc = f,
                                                    !.results = load_results(fs)]

NextAnalyze ==
    \/ analyze_results_main
    \/ create_uptime_graph
    \/ create_success_rate_graph
    \/ create_calendar_heatmap
    \/ create_endpoint_analysis
    \/ generate_summary_report

SpecAnalyze == InitAnalyze /\ [][NextAnalyze]_vars

-----------------------------------------------------------------------------
(* The probes *)

\* the outcome of the request result i of invocation m was built from: the first
\* request of a run is describeServer, request i + 1 is that of catalog entry i
OutcomeOf(m, i) == transport_log[m][i + 1]

\* C1: perform_atproto_requests returns one result per catalog entry, result i
\* named after entry i, whatever the requests' outcomes: each request made has
\* its result, no exception leaves the loop, and the list that is returned has
\* the catalog's length.
C1_BatchComplete ==
    \A m \in Invocations :
        /\ Len(requests_results[m]) <= env.catalog
        /\ \A i \in 1..Len(requests_results[m]) :
               requests_results[m][i].endpoint = endpoints[i].name
        /\ status_result[m] # None => Len(transport_log[m]) = Len(requests_results[m]) + 1
        /\ raised[m].from # "perform_atproto_requests"
        /\ monitoring_result[m] # None =>
               Len(monitoring_result[m][1].atproto_requests) = env.catalog

\* a run whose first request timed out, whose second got a 500, and whose third succeeded
C1_Witness ==
    \E m \in Invocations :
        /\ monitoring_result[m] # None
        /\ env.catalog >= 3
        /\ requests_results[m][1].status = "failed"
        /\ requests_results[m][2].status = "error"
        /\ requests_results[m][3].status = "success"

\* C2, as the spec has it: every result has its response_time, also when the
\* request raised.
C2_AlwaysTimed ==
    \A m \in Invocations :
        /\ status_result[m] # None => status_result[m][1].response_time # None
        /\ \A i \in 1..Len(requests_results[m]) :
               requests_results[m][i].response_time # None

\* C2, amended: a result has its response_time exactly when the request returned
\* a response (of any status code); when the request raised, response_time stays None.
C2_TimedWhenAnswered ==
    \A m \in Invocations :
        /\ status_result[m] # None =>
               (status_result[m][1].response_time # None <=> OutcomeOf(m, 0).kind = "response")
        /\ \A i \in 1..Len(requests_results[m]) :
               /\ requests_results[m][i].response_time # None
                      <=> OutcomeOf(m, i).kind = "response"
               /\ OutcomeOf(m, i).kind = "response" =>
                      requests_results[m][i].response_time = Some(OutcomeOf(m, i).elapsed)

\* a run with a request that timed out (no response_time) and one that got a 500 (timed)
C2_Witness ==
    \E m \in Invocations :
        \E i, j \in 1..Len(requests_results[m]) :
            /\ requests_results[m][i].status = "failed"
            /\ requests_results[m][i].response_time = None
            /\ requests_results[m][j].status = "error"
            /\ requests_results[m][j].response_time # None

ProbeStatuses == {"success", "unauthorized", "not_found", "error", "failed"}
HealthStatuses == {"online", "error", "offline"}

\* C3: no result of a run keeps the status 'unknown' it was created with: a
\* catalog result has one of success, unauthorized, not_found, error, failed, and
\* the health check's result one of online, error, offline.
C3_StatusKnown ==
    \A m \in Invocations :
        /\ status_result[m] # None => status_result[m][1].status \in HealthStatuses
        /\ \A i \in 1..Len(requests_results[m]) :
               requests_results[m][i].status \in ProbeStatuses
        /\ monitoring_result[m] # None =>
               /\ monitoring_result[m][1].pds_status.status \in HealthStatuses
               /\ \A i \in 1..Len(monitoring_result[m][1].atproto_requests) :
                      monitoring_result[m][1].atproto_requests[i].status \in ProbeStatuses

\* a finished run whose requests got a status code the chain has no branch for
C3_Witness ==
    \E m \in Invocations :
        /\ pc[m] = "done"
        /\ \E i \in 1..Len(requests_results[m]) :
               /\ OutcomeOf(m, i).kind = "response"
               /\ OutcomeOf(m, i).status_code \notin {200, 401, 404}
               /\ requests_results[m][i].status = "error"

\* the status and the error the spec's classification gives an outcome, the
\* message of 'error' being message(code)
Classified(result, out, message(_)) ==
    IF out.kind = "raise"
    THEN result.status = "failed" /\ result.error = Some(out.text)
    ELSE CASE out.status_code = 200 -> result.status = "success" /\ result.error = None
           [] out.status_code = 401 -> result.status = "unauthorized" /\ result.error = None
           [] out.status_code = 404 -> result.status = "not_found" /\ result.error = None
           [] OTHER -> result.status = "error" /\ result.error = Some(message(out.status_code))

CodeAsString(code) == ToString(code)
CodeAfterHTTP(code) == "HTTP " \o ToString(code)

\* C4, as the spec has it: the status follows from the outcome, and the error of
\* an 'error' result is the stringified status code.
C4_ErrorIsCode ==
    \A m \in Invocations :
        \A i \in 1..Len(requests_results[m]) :
            Classified(requests_results[m][i], OutcomeOf(m, i), CodeAsString)

\* C4, amended: the status follows from the outcome (200: success, 401:
\* unauthorized, 404: not_found, any other status code: error, an exception:
\* failed); the error of an 'error' result is "HTTP " followed by the status
\* code, that of a 'failed' result the exception's text, and it is None otherwise.
C4_Classification ==
    \A m \in Invocations :
        \A i \in 1..Len(requests_results[m]) :
            Classified(requests_results[m][i], OutcomeOf(m, i), CodeAfterHTTP)

\* a run with a 500, classified 'error' with the message "HTTP 500"
C4_Witness ==
    \E m \in Invocations :
        \E i \in 1..Len(requests_results[m]) :
            /\ OutcomeOf(m, i).kind = "response"
            /\ OutcomeOf(m, i).status_code = 500
            /\ requests_results[m][i].status = "error"
            /\ requests_results[m][i].error = Some("HTTP 500")

-----------------------------------------------------------------------------
(* The summary *)

IsSuccess(q) == q.status = "success"

\* rate is successful / total * 100 to the nearest hundredth (rate in hundredths)
NearestHundredth(rate, successful, total) ==
    /\ 2 * (rate * total - 10000 * successful) <= total
    /\ 2 * (10000 * successful - rate * total) <= total

\* the summary of record r is the one its results give
SummaryOfResults(r) ==
    /\ r.summary.total_requests = Len(r.atproto_requests)
    /\ r.summary.successful_requests = Len(SelectSeq(r.atproto_requests, IsSuccess))
    /\ IF Len(r.atproto_requests) = 0
       THEN r.summary.success_rate = 0
       ELSE NearestHundredth(r.summary.success_rate, r.summary.successful_requests,
                             r.summary.total_requests)

C5_Derived ==
    \A m \in Invocations :
        monitoring_result[m] # None =>
            /\ monitoring_result[m][1].atproto_requests = requests_results[m]
            /\ SummaryOfResults(monitoring_result[m][1])

C5_Kept ==
    \A m \in Invocations :
        monitoring_result[m] # None => monitoring_result'[m] = monitoring_result[m]

\* C5: the summary of every monitoring result run_monitoring builds has the
\* number of results as total_requests, the number of 'success' results as
\* successful_requests and successful / total * 100 rounded to two places as
\* success_rate (0 without results), and no later step of the run changes it.
C5_Summary == []C5_Derived /\ [][C5_Kept]_vars

\* a finished run with one success in three requests: 33.33 %
C5_Witness ==
    \E m \in Invocations :
        /\ pc[m] = "done"
        /\ monitoring_result[m][1].summary.total_requests = 3
        /\ monitoring_result[m][1].summary.successful_requests = 1
        /\ monitoring_result[m][1].summary.success_rate = 3333

-----------------------------------------------------------------------------
(* The history *)

\* the records of the save_results calls that returned, in the order they returned
Created == [i \in 1..Len(appended) |-> appended[i].record]

\* no save_results call failed, none ran while another did, and none is under way
OnlySuccessfulAppends ==
    /\ \A m \in Invocations : raised[m] = NoException
    /\ overlapped = {}
    /\ ~dirty

\* C6: after save_results calls that succeeded, made one after the other, what
\* load_results returns is the records saved, one per call, in the order saved.
C6_HistoryOnlyGrows == OnlySuccessfulAppends => load_results(files) = Created

\* the load that returned began with the directory as the last save_results call
\* left it, that call did not run while another did, and nothing was written since
LoadedAfterAppend ==
    /\ loader.pc = "returned"
    /\ loader.fresh
    /\ loader.stable
    /\ appended # <<>>
    /\ appended[Len(appended)].by \notin overlapped

\* C7: load_results after a save_results(r) that returned gives a list whose
\* last element equals r in every field.
C7_RoundTrip ==
    LoadedAfterAppend =>
        /\ loader.results # <<>>
        /\ loader.results[Len(loader.results)] = appended[Len(appended)].record

\* a second record saved after a first, of a run that found the PDS unreachable
\* (response_time and error differ from the first's), and both loaded
C7_Witness ==
    /\ LoadedAfterAppend
    /\ Len(loader.results) = 2
    /\ loader.results[1].pds_status.status = "online"
    /\ loader.results[2].pds_status.response_time = None

\* both save_results calls returned, they ran at the same time, and they wrote the same file
RacedOnOneFile ==
    /\ Len(appended) = 2
    /\ {appended[1].by, appended[2].by} \subseteq overlapped
    /\ appended[1].filename = appended[2].filename

\* C8: when two save_results calls that run at the same time write the same
\* file, fewer records are loaded than were saved, and a record that is loaded
\* from the file is that of the call that wrote last.
C8_LastWriteWins ==
    RacedOnOneFile =>
        /\ Len(load_results(files)) < Len(appended)
        /\ \A i \in 1..Len(load_results(files)) :
               load_results(files)[i] = appended[2].record

\* two calls raced, with different records, and only the second's is loaded
C8_Witness ==
    /\ RacedOnOneFile
    /\ appended[1].record # appended[2].record
    /\ load_results(files) = <<appended[2].record>>

\* the i-th name of a set of names, in ascending order
Nth(names, i) == CHOOSE n \in names : Cardinality({k \in names : k < n}) = i - 1

Parsable == {n \in DOMAIN files : files[n].state = "complete"}
Unparsable == DOMAIN files \ Parsable

\* the load that returned ran on a directory that was not written to meanwhile
LoadedUndisturbed == loader.pc = "returned" /\ loader.stable

\* C9, as the spec has it: load_results does not raise, and with a file that
\* cannot be parsed it returns an empty list.
C9_EmptyWhenUnparsable ==
    /\ ~loader.raised
    /\ (LoadedUndisturbed /\ Unparsable # {}) => loader.results = <<>>

\* C9, amended: load_results never raises for missing or corrupt data: without
\* a directory or files it returns an empty list; a file that cannot be parsed
\* is skipped with a printed message, and the records of the files that can be
\* parsed are returned, in the order of their names (an empty list only when
\* no file can be parsed).
C9_SkipsUnparsable ==
    /\ ~loader.raised
    /\ LoadedUndisturbed =>
           /\ Len(loader.results) = Cardinality(Parsable)
           /\ \A i \in 1..Len(loader.results) :
                  loader.results[i] = json_load(files[Nth(Parsable, i)].text[1])
           /\ Len(loader.errors) = Cardinality(Unparsable)
           /\ \A i \in 1..Len(loader.errors) : loader.errors[i] = Nth(Unparsable, i)

\* a load of a directory with a file that cannot be parsed and one that can
C9_Witness ==
    /\ LoadedUndisturbed
    /\ loader.errors # <<>>
    /\ loader.results # <<>>

-----------------------------------------------------------------------------
(* main *)

Saved(m) == \E i \in 1..Len(appended) : appended[i].by = m

\* C10, as the spec has it: a run whose save_results raised has printed its summary.
C10_PrintedBeforeError ==
    \A m \in Invocations :
        raised[m].from = "save_results" => stdout[m] = <<"summary">>

\* C10, amended: when persisting the record fails, the storage error is not
\* swallowed but leaves main(), and the summary is not printed: main() prints
\* it only after save_results has returned.  Before the error the run has only
\* logged run_monitoring's lines (the PDS status, the count of successful requests).
C10_ErrorBeforePrint ==
    \A m \in Invocations :
        /\ raised[m].from = "save_results" =>
               /\ pc[m] = "raised"
               /\ raised[m].exception = "OSError"
               /\ stdout[m] = <<>>
               /\ logged[m] = <<"Starting PDS monitoring", "PDS Status", "AT Protocol Requests">>
               /\ ~Saved(m)
        /\ pc[m] \in {"print", "done"} => Saved(m)
        /\ stdout[m] # <<>> => pc[m] = "done" /\ Saved(m)

\* a run whose record was built and whose write failed
C10_Witness ==
    \E m \in Invocations :
        /\ monitoring_result[m] # None
        /\ filename[m] # None
        /\ raised[m] = Exception("OSError", "save_results")
        /\ stdout[m] = <<>>

-----------------------------------------------------------------------------
(* The aggregates *)

\* the call of function f of the analyzer has ended: it returned or raised
Acted(f) == f \in analysis.ended

\* the results of the history that are of date d
RunsOn(d) == {i \in 1..Len(analysis.results) : date(analysis.results[i].timestamp) = d}
OnlineOn(d) == {i \in RunsOn(d) : analysis.results[i].pds_status.status = "online"}

ObservedDates == {date(analysis.results[i].timestamp) : i \in 1..Len(analysis.results)}
FirstDate == CHOOSE d \in ObservedDates : \A e \in ObservedDates : d <= e
LastDate == CHOOSE d \in ObservedDates : \A e \in ObservedDates : e <= d

RECURSIVE Flatten(_)
\* the rows of a matrix, one after the other
Flatten(rows) == IF rows = <<>> THEN <<>> ELSE Head(rows) \o Flatten(Tail(rows))

\* entry is what the claim asks of date d: 'no data' when the date has no run,
\* else the number online / total * 100
IsDailyUptime(entry, d) ==
    IF RunsOn(d) = {} THEN entry = None
    ELSE /\ entry # None
         /\ entry[1].num * Cardinality(RunsOn(d)) =
                100 * Cardinality(OnlineOn(d)) * entry[1].den

\* C11: once create_calendar_heatmap was called with a non-empty history, it
\* has produced a daily uptime series with one entry for every calendar date
\* from the first to the last date observed: online/total*100 for a date with
\* runs (0 when all of them failed), and a 'no data' entry, which is no number,
\* for a date with none.
C11_DailySeries ==
    (Acted("create_calendar_heatmap") /\ analysis.results # <<>>) =>
        /\ analysis.raised = NoException
        /\ analysis.output["create_calendar_heatmap"] # None
        /\ LET series == Flatten(analysis.output["create_calendar_heatmap"][1])
           IN  /\ Len(series) = LastDate - FirstDate + 1
               /\ \A k \in 1..Len(series) : IsDailyUptime(series[k], FirstDate + k - 1)

\* every call so far was given an empty history and came to 'no data': it
\* raised nothing, saved nothing and said there is nothing to analyze
NoDataOutcome ==
    /\ analysis.raised = NoException
    /\ \A f \in AnalysisFunctions : analysis.output[f] = None
    /\ \/ analysis.stdout = <<"No results to analyze">>
       \/ analysis.stdout = <<"Loading monitoring results...", "No monitoring results found">>

\* the history is one run whose describeServer request failed
OneFailedRun ==
    /\ Len(analysis.results) = 1
    /\ analysis.results[1].pds_status.status # "online"

\* C12: a function of the analyzer called with an empty history, and main() over
\* a directory with no results, raise no exception (no division by zero) and
\* produce no aggregate at all: no overall uptime, overall success rate,
\* per-endpoint success rate, daily uptime series or average response time,
\* only the message that there is nothing to analyze.  The summary report of a
\* history of one run whose primary probe failed does exist and gives an
\* overall uptime of 0, so 'no data' is told apart from 0%.
C12_EmptyIsNoData ==
    /\ (analysis.pc \in {"done", "raised"} /\ analysis.results = <<>>) => NoDataOutcome
    /\ (Acted("generate_summary_report") /\ OneFailedRun) =>
           /\ analysis.raised = NoException
           /\ analysis.output["generate_summary_report"] # None
           /\ analysis.output["generate_summary_report"][1].total_checks = 1
           /\ analysis.output["generate_summary_report"][1].uptime_percentage = 0

\* generate_summary_report was called with the empty history and has returned
C12_Witness ==
    /\ Acted("generate_summary_report")
    /\ analysis.results = <<>>
    /\ analysis.pc = "done"
    /\ files = <<>>

\* the primary-probe response times of the history that are not null, in milliseconds
NonNullTimes ==
    LET timed == SelectSeq(analysis.results, LAMBDA r : r.pds_status.response_time # None)
    IN  [i \in 1..Len(timed) |-> timed[i].pds_status.response_time[1]]

\* the mean of times to the nearest millisecond, as the report shows it
NearestMillisecond(mean, times) ==
    /\ 2 * (Len(times) * mean - sum(times)) <= Len(times)
    /\ 2 * (sum(times) - Len(times) * mean) <= Len(times)

\* C13: the average response time of a summary report is the mean of the
\* primary probe's response_time over exactly the runs where it is not null,
\* a value of 0 counted like any other, and it is 'no data' when there is no
\* such run.
C13_MeanOfNonNull ==
    (Acted("generate_summary_report") /\ analysis.output["generate_summary_report"] # None) =>
        LET avg == analysis.output["generate_summary_report"][1].avg_response_time
        IN  IF NonNullTimes = <<>> THEN avg = None
            ELSE avg # None /\ NearestMillisecond(avg[1], NonNullTimes)

=============================================================================
